---------------------------- MODULE Spec2Model ----------------------------
(***************************************************************************)
(* A model of the initial-sync non-skipped-slot search                     *)
(* (beacon-chain/sync/initial-sync/blocks_fetcher_utils.go) and of the     *)
(* p2p gossip topic registry and broadcaster (beacon-chain/p2p).           *)
(*                                                                         *)
(* FinderSpec  : one call of blocksFetcher.nonSkippedSlotAfter, one step   *)
(*               per round trip to a peer.                                 *)
(* TopicSpec   : concurrent callers of JoinTopic, LeaveTopic,              *)
(*               PublishToTopic and SubscribeToTopic.                      *)
(* PublishSpec : concurrent callers of PublishToTopic, under fairness of   *)
(*               the poll loop.                                            *)
(* BroadcastSpec : concurrent callers of Broadcast.                        *)
(* Spec        : concurrent callers of BroadcastAttestation, with the      *)
(*               goroutine each call spawns.                               *)
(* TaskSpec    : Spec under fairness of the goroutines' steps and of the   *)
(*               deadline.                                                 *)
(* ScenarioSpec : nonSkippedSlotAfter with the mainnet constants.          *)
(* MsgIdSpec   : msgIDFunction on pairs of payloads.                       *)
(***************************************************************************)
EXTENDS Integers, Sequences, FiniteSets, TLC

(***************************************************************************)
(* Bounds of the model.                                                    *)
(***************************************************************************)
\* largest epoch the local chain or the peer registry reports
MaxEpoch == 4
\* largest reference slot handed to nonSkippedSlotAfter
MaxRefSlot == 2
\* largest number of peers filterPeers returns
MaxPeers == 2
\* largest number of blocks in one peer response
MaxBlocks == 2

\* number of topic registry calls, or of Broadcast calls, in one run
MaxCalls == 3
\* number of BroadcastAttestation calls in one run
MaxBroadcasts == 2
\* largest length of a pubsub message's Data
MaxDataLen == 4
\* params.BeaconConfig().SlotsPerEpoch in the bounded runs
SmallSlotsPerEpoch == 4
\* nonSkippedSlotsFullSearchEpochs in the bounded runs
SmallFullSearchEpochs == 2

(***************************************************************************)
(* Program constants.  The configuration values live outside the files     *)
(* modelled here; the lines named for them are the lines that read them.   *)
(***************************************************************************)
\* params.BeaconConfig().MaxPeersToSync
MaxPeersToSync == 15
\* flags.Get().MinimumSyncPeers
MinimumSyncPeers == 3
\* Max number of attempts to search the network for a specific subnet.
maxSubnetDiscoveryAttempts == 3

modeStopOnFinalizedEpoch == "modeStopOnFinalizedEpoch"
modeNonConstrained == "modeNonConstrained"
Modes == {modeStopOnFinalizedEpoch, modeNonConstrained}

errSlotIsTooHigh == "errSlotIsTooHigh"
errNoPeersAvailable == "errNoPeersAvailable"
errFilterPeers == "filterPeers error"
errRequestBlocks == "requestBlocks error"
errInvalidRange == "invalid range for non-skipped slot"
NoErr == "nil"

VARIABLES
    \* ---- blocksFetcher.nonSkippedSlotAfter ----
    fpc,             \* position of the call: idle, dense, sparse, exact, done
    slotsPerEpoch,   \* params.BeaconConfig().SlotsPerEpoch
    nonSkippedSlotsFullSearchEpochs, \* epochs the dense stage checks in full
    refSlot,         \* the slot the caller passed in
    slot,            \* the local variable slot (reassigned at line 85)
    headEpoch,       \* calculateHeadAndTargetEpochs' first result
    targetEpoch,     \* calculateHeadAndTargetEpochs' second result
    peers,           \* the peer list after filterPeers
    pidInd,          \* round-robin index into peers
    ind,             \* loop variable of the dense and the sparse loop
    upperBoundSlot,  \* upper bound of the sparse stage
    fResult,         \* [val, err]: what the call returned
    requests,        \* the block-range requests issued, in order
    filterCalls,     \* number of filterPeers calls
    registryQuery,   \* the peer registry query of calculateHeadAndTargetEpochs
    peerChain,       \* slots at which honest peers hold a block
    byzantine,       \* whether peers may answer with arbitrary blocks
    \* ---- p2p Service ----
    joinedTopics,     \* s.joinedTopics: topic -> handle (NoHandle: absent)
    joinedTopicsLock, \* s.joinedTopicsLock: its holder (NoProc: free)
    nextHandle,       \* number of handles pubsub.Join has created
    closedHandles,    \* handles whose Close succeeded
    subscribed,       \* handles with an outstanding subscription
    topicPeers,       \* topic -> whether ListPeers is non-empty
    genesisKnown,     \* genesis time and validators root set (forkDigest works)
    subnetReaders,    \* s.subnetLocker(subnet): holders of the read lock
    subnetWriter,     \* s.subnetLocker(subnet): holder of the write lock
    subnetPeers,      \* subnet -> s.hasPeerWithSubnet(subnet)
    proc,             \* per caller: the running call, its position and locals
    hist,             \* per caller: what the running call has done so far
    joinLog,          \* per topic: joins and returns since the topic was last left
    callsLeft,        \* calls the callers may still make
    requestDone,      \* the BroadcastAttestation callers' context is done
    \* ---- msgIDFunction ----
    pmsgData,         \* the Data of two pubsub messages
    msgIds            \* the ids msgIDFunction returned for them (<<>>: not called)

fvars == <<fpc, slotsPerEpoch, nonSkippedSlotsFullSearchEpochs, refSlot, slot, headEpoch, targetEpoch, peers,
           pidInd, ind, upperBoundSlot, fResult, requests, filterCalls,
           registryQuery, peerChain, byzantine>>

pvars == <<joinedTopics, joinedTopicsLock, nextHandle, closedHandles,
           subscribed, topicPeers, genesisKnown, subnetReaders, subnetWriter,
           subnetPeers, proc, hist, joinLog, callsLeft, requestDone>>

mvars == <<pmsgData, msgIds>>

vars == <<fvars, pvars, mvars>>

(***************************************************************************)
(* helpers.StartSlot and helpers.SlotToEpoch (overflow is out of the       *)
(* model's bounds: every slot stays far below 2^64).                       *)
(***************************************************************************)
StartSlot(epoch) == epoch * slotsPerEpoch
SlotToEpoch(s) == s \div slotsPerEpoch

\* The last slot of an epoch.
EndOfEpoch(epoch) == StartSlot(epoch + 1) - 1

(***************************************************************************)
(* calculateHeadAndTargetEpochs: the head epoch and the registry query.    *)
(***************************************************************************)
HeadEpochOf(mode, finalizedEpoch, headSlot) ==
    IF mode = modeStopOnFinalizedEpoch THEN finalizedEpoch
    ELSE SlotToEpoch(headSlot)

RegistryQueryOf(mode, finalizedEpoch, headSlot) ==
    IF mode = modeStopOnFinalizedEpoch
    THEN [fn |-> "BestFinalized", minPeers |-> MaxPeersToSync,
          minEpoch |-> finalizedEpoch]
    ELSE [fn |-> "BestNonFinalized", minPeers |-> MinimumSyncPeers,
          minEpoch |-> SlotToEpoch(headSlot)]

\* The early exit of line 33.
SlotIsTooHighMutant(head, target) == target < head
SlotIsTooHigh(head, target) == target <= head

(***************************************************************************)
(* The fetch closure: the first returned block above slot, else 0.  The    *)
(* closure reads the variable slot, so after line 85 it compares with the  *)
(* advanced value.                                                         *)
(***************************************************************************)
RECURSIVE FirstAbove(_, _)
FirstAbove(blocks, s) ==
    IF blocks = <<>> THEN 0
    ELSE IF Head(blocks) > s THEN Head(blocks)
    ELSE FirstAbove(Tail(blocks), s)

\* The blocks an honest peer returns for a request, in ascending slot order.
RECURSIVE HonestBlocksFrom(_, _, _)
HonestBlocksFrom(start, count, step) ==
    IF count = 0 THEN <<>>
    ELSE (IF start \in peerChain THEN <<start>> ELSE <<>>)
         \o HonestBlocksFrom(start + step, count - 1, step)

\* Slots an arbitrary peer may put in a response.
ByzantineSlots ==
    {0, refSlot, slot + 1, EndOfEpoch(targetEpoch),
     StartSlot(targetEpoch + 1), StartSlot(targetEpoch + 1) + 1}

SeqsUpTo(S, n) == UNION {[1..k -> S] : k \in 0..n}

\* What requestBlocks may return without error.
Responses(start, count, step) ==
    {HonestBlocksFrom(start, count, step)}
    \cup (IF byzantine THEN SeqsUpTo(ByzantineSlots, MaxBlocks) ELSE {})

Request(start, count, step) ==
    [pid |-> peers[(pidInd % Len(peers)) + 1], start |-> start,
     count |-> count, step |-> step]

Return(val, err) ==
    /\ fpc' = "done"
    /\ fResult' = [val |-> val, err |-> err]

(***************************************************************************)
(* Lines 25-44 and 69-71: epochs, early exit, peer filter, loop set-up.    *)
(***************************************************************************)
Call(s, mode, finalizedEpoch, headSlot, target, filterErr, filtered) ==
    /\ UNCHANGED <<pvars, mvars>>
    /\ fpc = "idle"
    /\ refSlot' = s
    /\ slot' = s
    /\ headEpoch' = HeadEpochOf(mode, finalizedEpoch, headSlot)
    /\ targetEpoch' = target
    /\ registryQuery' = RegistryQueryOf(mode, finalizedEpoch, headSlot)
    /\ IF SlotIsTooHigh(headEpoch', target)
       THEN /\ Return(0, errSlotIsTooHigh)
            /\ UNCHANGED <<peers, filterCalls, ind>>
       ELSE /\ filterCalls' = filterCalls + 1
            /\ IF filterErr
               THEN /\ Return(0, errFilterPeers)
                    /\ UNCHANGED <<peers, ind>>
               ELSE IF Len(filtered) = 0
               THEN /\ Return(0, errNoPeersAvailable)
                    /\ UNCHANGED <<peers, ind>>
               ELSE /\ peers' = filtered
                    /\ ind' = s + 1
                    /\ fpc' = "dense"
                    /\ UNCHANGED fResult
    /\ UNCHANGED <<slotsPerEpoch, nonSkippedSlotsFullSearchEpochs, pidInd, upperBoundSlot, requests,
                   peerChain, byzantine>>

\* Lines 83-89 and the loop head of line 90: entering the sparse stage.
EnterSparse ==
    /\ slot' = slot + nonSkippedSlotsFullSearchEpochs * slotsPerEpoch
    /\ upperBoundSlot' = StartSlot(targetEpoch + 1)
    /\ ind' = slot' + 1
    /\ fpc' = IF ind' < upperBoundSlot' THEN "sparse" ELSE "exact"

(***************************************************************************)
(* Lines 72-81: one iteration of the dense loop.                           *)
(***************************************************************************)
\* line 71: end := start + nonSkippedSlotsFullSearchEpochs*slotsPerEpoch
DenseEndMutant == refSlot + 1 + slotsPerEpoch
DenseEnd == refSlot + 1 + nonSkippedSlotsFullSearchEpochs * slotsPerEpoch

DenseFetch ==
    /\ UNCHANGED <<pvars, mvars>>
    /\ fpc = "dense"
    /\ requests' = Append(requests, Request(ind, slotsPerEpoch, 1))
    /\ \/ /\ Return(0, errRequestBlocks)
          /\ UNCHANGED <<slot, pidInd, ind, upperBoundSlot>>
       \/ \E blocks \in Responses(ind, slotsPerEpoch, 1) :
            LET nextSlot == FirstAbove(blocks, slot) IN
            IF nextSlot > slot
            THEN /\ Return(nextSlot, NoErr)
                 /\ UNCHANGED <<slot, pidInd, ind, upperBoundSlot>>
            ELSE /\ pidInd' = pidInd + 1
                 /\ UNCHANGED fResult
                 /\ IF ind + slotsPerEpoch < DenseEnd
                    THEN /\ ind' = ind + slotsPerEpoch
                         /\ UNCHANGED <<fpc, slot, upperBoundSlot>>
                    ELSE EnterSparse
    /\ UNCHANGED <<slotsPerEpoch, nonSkippedSlotsFullSearchEpochs, refSlot, headEpoch, targetEpoch, peers,
                   filterCalls, registryQuery, peerChain, byzantine>>

(***************************************************************************)
(* Lines 90-101: one iteration of the sparse loop; r is f.rand.Intn.       *)
(***************************************************************************)
SparseFetch ==
    /\ UNCHANGED <<pvars, mvars>>
    /\ fpc = "sparse"
    /\ \E r \in 0..(slotsPerEpoch - 1) :
        LET start == ind + r IN
        /\ requests' = Append(requests,
                         Request(start, slotsPerEpoch \div 2, slotsPerEpoch))
        /\ \/ /\ Return(0, errRequestBlocks)
              /\ UNCHANGED <<pidInd, ind, upperBoundSlot>>
           \/ \E blocks \in Responses(start, slotsPerEpoch \div 2, slotsPerEpoch) :
                LET nextSlot == FirstAbove(blocks, slot) IN
                /\ pidInd' = pidInd + 1
                /\ UNCHANGED fResult
                /\ IF nextSlot > slot /\ upperBoundSlot >= nextSlot
                   THEN /\ upperBoundSlot' = nextSlot
                        /\ fpc' = "exact"
                        /\ UNCHANGED ind
                   ELSE /\ ind' = ind + (slotsPerEpoch * slotsPerEpoch) \div 2
                        /\ fpc' = IF ind' < upperBoundSlot THEN "sparse" ELSE "exact"
                        /\ UNCHANGED upperBoundSlot
    /\ UNCHANGED <<slotsPerEpoch, nonSkippedSlotsFullSearchEpochs, refSlot, slot, headEpoch, targetEpoch, peers,
                   filterCalls, registryQuery, peerChain, byzantine>>

\* Lines 104-107: the start slot of the exact stage's request.
ExactStartMutant(ub) == StartSlot(SlotToEpoch(ub - 2 * slotsPerEpoch))
ExactStart(ub) ==
    StartSlot(SlotToEpoch(IF ub > slotsPerEpoch THEN ub - slotsPerEpoch ELSE ub))

\* Line 119: the range check of the final candidate.
InvalidRange(nextSlot, s, bound) == nextSlot < s \/ bound < nextSlot

(***************************************************************************)
(* Lines 103-122: the exact stage.                                         *)
(***************************************************************************)
ExactFetch ==
    /\ UNCHANGED <<pvars, mvars>>
    /\ fpc = "exact"
    /\ upperBoundSlot' = ExactStart(upperBoundSlot)
    /\ requests' = Append(requests,
                     Request(upperBoundSlot', slotsPerEpoch * 2, 1))
    /\ \/ Return(0, errRequestBlocks)
       \/ \E blocks \in Responses(upperBoundSlot', slotsPerEpoch * 2, 1) :
            LET nextSlot == FirstAbove(blocks, slot) IN
            IF InvalidRange(nextSlot, slot, StartSlot(targetEpoch + 1))
            THEN Return(0, errInvalidRange)
            ELSE Return(nextSlot, NoErr)
    /\ UNCHANGED <<slotsPerEpoch, nonSkippedSlotsFullSearchEpochs, refSlot, slot, headEpoch, targetEpoch, peers,
                   pidInd, ind, filterCalls, registryQuery, peerChain,
                   byzantine>>

(***************************************************************************)
(* The p2p service: the topic registry (JoinTopic, LeaveTopic,             *)
(* PublishToTopic, SubscribeToTopic) and the broadcaster.                  *)
(***************************************************************************)
\* two concurrent callers (goroutines)
Procs == {1, 2}
NoProc == 0
\* one attestation subnet, for which all the tasks contend
Subnets == {1}
NoHandle == 0

\* Topic strings: a format and its subnet argument (0: none).  The fork
\* digest and the protocol suffix are the same in every topic of a run.
BlockTopic == <<"beacon_block", 0>>
attestationToTopic(subnet) == <<"beacon_attestation", subnet>>
Topics == {BlockTopic} \cup {attestationToTopic(s) : s \in Subnets}

\* GossipTypeMapping, and the message types callers hand to Broadcast.
MsgTypes == {"SignedBeaconBlock", "AddressBook"}
GossipTypeMapping == [m \in {"SignedBeaconBlock"} |-> BlockTopic]

ErrMessageNotMapped == "message type is not mapped to a PubSub topic"
errForkDigest == "could not retrieve fork digest"
errEncode == "could not encode message"
errPublish == "could not publish message"
errJoin == "pubsub.Join error"
errClose == "topic.Close error"
errTransport == "topic.Publish error"
errCtx == "ctx.Err()"
errFind == "FindPeersWithSubnet error"
errNotFound == "failed to find peers for subnet"
Pending == "pending"

PublishOps == {"PublishToTopic", "Broadcast", "BroadcastAttestation"}

IdleProc ==
    [op |-> "none", pc |-> "idle", topic |-> BlockTopic, subnet |-> 0,
     msg |-> "none", handle |-> NoHandle, hasPeer |-> FALSE, i |-> 0,
     ctxDone |-> FALSE, ret |-> Pending]

IdleHist ==
    [finds |-> <<>>, objCalls |-> 0, encodeCalls |-> 0, publishCalls |-> 0,
     lastList |-> "none", discErr |-> "none", pubErr |-> "none",
     objErr |-> "none", usedClosed |-> FALSE]

EmptyJoinLog == [joins |-> 0, returned |-> {}]

ServiceInit ==
    /\ joinedTopics = [t \in Topics |-> NoHandle]
    /\ joinedTopicsLock = NoProc
    /\ nextHandle = 0
    /\ closedHandles = {}
    /\ subscribed = {}
    /\ topicPeers = [t \in Topics |-> FALSE]
    /\ genesisKnown \in BOOLEAN
    /\ subnetReaders = [s \in Subnets |-> {}]
    /\ subnetWriter = [s \in Subnets |-> NoProc]
    /\ subnetPeers = [s \in Subnets |-> FALSE]
    /\ proc = [p \in Procs |-> IdleProc]
    /\ hist = [p \in Procs |-> IdleHist]
    /\ joinLog = [t \in Topics |-> EmptyJoinLog]
    /\ requestDone = FALSE

\* A caller may start a call when it runs none and calls are left.
CanCall(p) == proc[p].pc \in {"idle", "done"} /\ callsLeft > 0

StartCall(p, r) ==
    /\ proc' = [proc EXCEPT ![p] = r]
    /\ hist' = [hist EXCEPT ![p] = IdleHist]
    /\ callsLeft' = callsLeft - 1

(***************************************************************************)
(* Contexts.  proc[p].ctxDone says that the context the operation holds is *)
(* done, its parent aside: for PublishToTopic the context it was given,    *)
(* for Broadcast the caller's context with the two-slot timeout, for the   *)
(* broadcastAttestation goroutine the one-epoch timeout it sets itself.    *)
(* requestDone says that the context handed to BroadcastAttestation (the   *)
(* callers' request context) is done.                                      *)
(***************************************************************************)
\* line 71, 73: the parent of the goroutine's context is context.Background()
TaskParentDoneMutant == requestDone
TaskParentDone == FALSE

\* ctx.Err() # nil, for the context the operation of p holds
CtxErr(p) ==
    IF proc[p].op = "BroadcastAttestation"
    THEN TaskParentDone \/ proc[p].ctxDone
    ELSE proc[p].ctxDone

(***************************************************************************)
(* PublishToTopic's return, as its caller sees it: PublishToTopic itself,  *)
(* Broadcast through broadcastObject (the error wrapped), or the           *)
(* broadcastAttestation goroutine (the error logged).                      *)
(***************************************************************************)
\* broadcaster.go lines 128-131, 135-138: the goroutine logs the error of the
\* discovery and of broadcastObject; the value BroadcastAttestation returned
\* stays what it was.
TaskSurfacedMutant(ret, err) == err
TaskSurfaced(ret, err) == ret

PublishReturn(p, err, h) ==
    /\ hist' = [hist EXCEPT ![p] =
                  [h EXCEPT !.pubErr = err,
                            !.objErr =
                                IF proc[p].op = "PublishToTopic" THEN @
                                ELSE IF err = NoErr THEN NoErr ELSE errPublish]]
    /\ proc' = [proc EXCEPT ![p].pc = "done",
                            ![p].ret =
                                CASE proc[p].op = "PublishToTopic" -> err
                                  [] proc[p].op = "Broadcast" ->
                                        IF err = NoErr THEN NoErr ELSE errPublish
                                  [] OTHER -> TaskSurfaced(@, err)]

(***************************************************************************)
(* JoinTopic, lines 14-28.                                                 *)
(***************************************************************************)
CanLockJoinedTopicsMutant == TRUE
CanLockJoinedTopics == joinedTopicsLock = NoProc

\* line 16: s.joinedTopicsLock.Lock()
JoinLock(p) ==
    /\ proc[p].pc = "join_lock"
    /\ CanLockJoinedTopics
    /\ joinedTopicsLock' = p
    /\ proc' = [proc EXCEPT ![p].pc = "join_locked"]
    /\ UNCHANGED <<fvars, mvars, requestDone, joinedTopics, nextHandle, closedHandles, subscribed,
                   topicPeers, genesisKnown, subnetReaders, subnetWriter,
                   subnetPeers, hist, joinLog, callsLeft>>

\* JoinTopic returned (handle, nil) to the operation that called it.
JoinReturned(p, h) ==
    proc' = [proc EXCEPT
               ![p].handle = h,
               ![p].pc = CASE proc[p].op = "JoinTopic" -> "done"
                           [] proc[p].op = "SubscribeToTopic" -> "subscribe"
                           [] OTHER -> "poll",
               ![p].ret = IF proc[p].op = "JoinTopic" THEN NoErr ELSE @]

\* line 19: the map lookup; on a miss pubsub.Join is called (line 20).
JoinLookup(p) ==
    LET t == proc[p].topic IN
    /\ proc[p].pc = "join_locked"
    /\ IF joinedTopics[t] # NoHandle
       THEN /\ JoinReturned(p, joinedTopics[t])
            /\ joinedTopicsLock' = NoProc
            /\ joinLog' = [joinLog EXCEPT
                             ![t].returned = @ \cup {joinedTopics[t]}]
       ELSE /\ proc' = [proc EXCEPT ![p].pc = "join_io"]
            /\ UNCHANGED <<joinedTopicsLock, joinLog>>
    /\ UNCHANGED <<fvars, mvars, requestDone, joinedTopics, nextHandle, closedHandles, subscribed,
                   topicPeers, genesisKnown, subnetReaders, subnetWriter,
                   subnetPeers, hist, callsLeft>>

\* lines 20-27: pubsub.Join returns; the handle is stored and returned.
JoinFinish(p) ==
    LET t == proc[p].topic IN
    /\ proc[p].pc = "join_io"
    /\ joinedTopicsLock' = NoProc
    /\ \/ /\ IF proc[p].op \in PublishOps
             THEN PublishReturn(p, errJoin, hist[p])
             ELSE /\ proc' = [proc EXCEPT ![p].pc = "done", ![p].ret = errJoin]
                  /\ UNCHANGED hist
          /\ UNCHANGED <<joinedTopics, nextHandle, joinLog>>
       \/ /\ nextHandle' = nextHandle + 1
          /\ joinedTopics' = [joinedTopics EXCEPT ![t] = nextHandle']
          /\ JoinReturned(p, nextHandle')
          /\ joinLog' = [joinLog EXCEPT
                           ![t].joins = @ + 1,
                           ![t].returned = @ \cup {nextHandle'}]
          /\ UNCHANGED hist
    /\ UNCHANGED <<fvars, mvars, requestDone, closedHandles, subscribed, topicPeers, genesisKnown,
                   subnetReaders, subnetWriter, subnetPeers, callsLeft>>

(***************************************************************************)
(* LeaveTopic, lines 30-43.                                                *)
(***************************************************************************)
\* line 33: s.joinedTopicsLock.Lock()
LeaveLock(p) ==
    /\ proc[p].pc = "leave_lock"
    /\ CanLockJoinedTopics
    /\ joinedTopicsLock' = p
    /\ proc' = [proc EXCEPT ![p].pc = "leave_locked"]
    /\ UNCHANGED <<fvars, mvars, requestDone, joinedTopics, nextHandle, closedHandles, subscribed,
                   topicPeers, genesisKnown, subnetReaders, subnetWriter,
                   subnetPeers, hist, joinLog, callsLeft>>

\* line 36: the map lookup; on a hit t.Close() is called (line 37).
LeaveLookup(p) ==
    LET t == proc[p].topic IN
    /\ proc[p].pc = "leave_locked"
    /\ IF joinedTopics[t] = NoHandle
       THEN /\ proc' = [proc EXCEPT ![p].pc = "done", ![p].ret = NoErr]
            /\ joinedTopicsLock' = NoProc
       ELSE /\ proc' = [proc EXCEPT ![p].pc = "leave_io",
                                    ![p].handle = joinedTopics[t]]
            /\ UNCHANGED joinedTopicsLock
    /\ UNCHANGED <<fvars, mvars, requestDone, joinedTopics, nextHandle, closedHandles, subscribed,
                   topicPeers, genesisKnown, subnetReaders, subnetWriter,
                   subnetPeers, hist, joinLog, callsLeft>>

\* line 40: delete(s.joinedTopics, topic)
DeleteTopicMutant(t) == joinedTopics
DeleteTopic(t) == [joinedTopics EXCEPT ![t] = NoHandle]

\* lines 37-42: Close fails while the handle has outstanding subscriptions;
\* otherwise the handle is closed and the topic deleted from the map.
LeaveFinish(p) ==
    LET t == proc[p].topic
        h == proc[p].handle IN
    /\ proc[p].pc = "leave_io"
    /\ joinedTopicsLock' = NoProc
    /\ IF h \in subscribed
       THEN /\ proc' = [proc EXCEPT ![p].pc = "done", ![p].ret = errClose]
            /\ UNCHANGED <<joinedTopics, closedHandles, joinLog>>
       ELSE /\ closedHandles' = closedHandles \cup {h}
            /\ joinedTopics' = DeleteTopic(t)
            /\ joinLog' = [joinLog EXCEPT ![t] = EmptyJoinLog]
            /\ proc' = [proc EXCEPT ![p].pc = "done", ![p].ret = NoErr]
    /\ UNCHANGED <<fvars, mvars, requestDone, nextHandle, subscribed, topicPeers, genesisKnown,
                   subnetReaders, subnetWriter, subnetPeers, hist, callsLeft>>

(***************************************************************************)
(* PublishToTopic, lines 45-70.                                            *)
(***************************************************************************)
\* line 58: publish only when ListPeers returned at least one peer
PublishCondMutant(havePeers) == TRUE
PublishCond(havePeers) == havePeers

\* lines 58-62: ListPeers, and Publish when a peer is there.
Poll(p) ==
    LET havePeers == topicPeers[proc[p].topic] IN
    /\ proc[p].pc = "poll"
    /\ IF PublishCond(havePeers)
       THEN \E e \in {NoErr, errTransport} :
              PublishReturn(p, e,
                  [hist[p] EXCEPT
                     !.publishCalls = @ + 1,
                     !.lastList = IF havePeers THEN "some" ELSE "zero",
                     !.usedClosed = @ \/ proc[p].handle \in closedHandles])
       ELSE /\ proc' = [proc EXCEPT ![p].pc = "select"]
            /\ hist' = [hist EXCEPT
                          ![p].lastList = "zero",
                          ![p].usedClosed = @ \/ proc[p].handle \in closedHandles]
    /\ UNCHANGED <<fvars, mvars, requestDone, joinedTopics, joinedTopicsLock, nextHandle, closedHandles,
                   subscribed, topicPeers, genesisKnown, subnetReaders,
                   subnetWriter, subnetPeers, joinLog, callsLeft>>

\* lines 64-65: the case <-ctx.Done() of the select is taken
CtxDoneSelectedMutant(ctxErr) == FALSE
CtxDoneSelected(ctxErr) == ctxErr

\* lines 63-68: the select on ctx.Done(), then the 100 ms sleep.
Select(p) ==
    /\ proc[p].pc = "select"
    /\ IF CtxDoneSelected(CtxErr(p))
       THEN PublishReturn(p, errCtx, hist[p])
       ELSE /\ proc' = [proc EXCEPT ![p].pc = "poll"]
            /\ hist' = [hist EXCEPT ![p].lastList = "none"]
    /\ UNCHANGED <<fvars, mvars, requestDone, joinedTopics, joinedTopicsLock, nextHandle, closedHandles,
                   subscribed, topicPeers, genesisKnown, subnetReaders,
                   subnetWriter, subnetPeers, joinLog, callsLeft>>

(***************************************************************************)
(* SubscribeToTopic, lines 72-81.                                          *)
(***************************************************************************)
\* line 74: s.awaitStateInitialized() returns once genesis is known.
StateIsInitializedMutant == TRUE
StateIsInitialized == genesisKnown

AwaitStateInitialized(p) ==
    /\ proc[p].pc = "await"
    /\ StateIsInitialized
    /\ proc' = [proc EXCEPT ![p].pc = "join_lock"]
    /\ UNCHANGED <<fvars, mvars, requestDone, joinedTopics, joinedTopicsLock, nextHandle, closedHandles,
                   subscribed, topicPeers, genesisKnown, subnetReaders,
                   subnetWriter, subnetPeers, hist, joinLog, callsLeft>>

\* line 80: topicHandle.Subscribe(opts...)
Subscribe(p) ==
    /\ proc[p].pc = "subscribe"
    /\ subscribed' = subscribed \cup {proc[p].handle}
    /\ proc' = [proc EXCEPT ![p].pc = "done", ![p].ret = NoErr]
    /\ hist' = [hist EXCEPT
                  ![p].usedClosed = @ \/ proc[p].handle \in closedHandles]
    /\ UNCHANGED <<fvars, mvars, requestDone, joinedTopics, joinedTopicsLock, nextHandle, closedHandles,
                   topicPeers, genesisKnown, subnetReaders, subnetWriter,
                   subnetPeers, joinLog, callsLeft>>

(***************************************************************************)
(* Calls of the registry's four operations.                                *)
(***************************************************************************)
CallJoinTopic(p, t) ==
    /\ CanCall(p)
    /\ StartCall(p, [IdleProc EXCEPT !.op = "JoinTopic", !.topic = t,
                                     !.pc = "join_lock"])
    /\ UNCHANGED <<fvars, mvars, requestDone, joinedTopics, joinedTopicsLock, nextHandle, closedHandles,
                   subscribed, topicPeers, genesisKnown, subnetReaders,
                   subnetWriter, subnetPeers, joinLog>>

CallLeaveTopic(p, t) ==
    /\ CanCall(p)
    /\ StartCall(p, [IdleProc EXCEPT !.op = "LeaveTopic", !.topic = t,
                                     !.pc = "leave_lock"])
    /\ UNCHANGED <<fvars, mvars, requestDone, joinedTopics, joinedTopicsLock, nextHandle, closedHandles,
                   subscribed, topicPeers, genesisKnown, subnetReaders,
                   subnetWriter, subnetPeers, joinLog>>

\* line 49: PublishToTopic starts with s.JoinTopic(topic)
CallPublishToTopic(p, t) ==
    /\ CanCall(p)
    /\ StartCall(p, [IdleProc EXCEPT !.op = "PublishToTopic", !.topic = t,
                                     !.pc = "join_lock"])
    /\ UNCHANGED <<fvars, mvars, requestDone, joinedTopics, joinedTopicsLock, nextHandle, closedHandles,
                   subscribed, topicPeers, genesisKnown, subnetReaders,
                   subnetWriter, subnetPeers, joinLog>>

CallSubscribeToTopic(p, t) ==
    /\ CanCall(p)
    /\ StartCall(p, [IdleProc EXCEPT !.op = "SubscribeToTopic", !.topic = t,
                                     !.pc = "await"])
    /\ UNCHANGED <<fvars, mvars, requestDone, joinedTopics, joinedTopicsLock, nextHandle, closedHandles,
                   subscribed, topicPeers, genesisKnown, subnetReaders,
                   subnetWriter, subnetPeers, joinLog>>

(***************************************************************************)
(* broadcastObject, lines 142-168: encode, then PublishToTopic.  r is the  *)
(* caller's record and h its history when broadcastObject is entered.      *)
(***************************************************************************)
BroadcastObject(p, r, h, topic, encodeFails) ==
    IF encodeFails
    THEN /\ proc' = [proc EXCEPT ![p] =
                       [r EXCEPT !.pc = "done", !.topic = topic,
                                 !.ret = IF r.op = "Broadcast" THEN errEncode
                                         ELSE TaskSurfaced(@, errEncode)]]
         /\ hist' = [hist EXCEPT ![p] =
                       [h EXCEPT !.objCalls = @ + 1, !.encodeCalls = @ + 1,
                                 !.objErr = errEncode]]
    ELSE /\ proc' = [proc EXCEPT ![p] =
                       [r EXCEPT !.pc = "join_lock", !.topic = topic]]
         /\ hist' = [hist EXCEPT ![p] =
                       [h EXCEPT !.objCalls = @ + 1, !.encodeCalls = @ + 1]]

(***************************************************************************)
(* Broadcast, lines 28-50.                                                 *)
(***************************************************************************)
CallBroadcast(p, msg, encodeFails) ==
    LET r == [IdleProc EXCEPT !.op = "Broadcast", !.msg = msg] IN
    /\ CanCall(p)
    /\ callsLeft' = callsLeft - 1
    /\ IF ~genesisKnown
       THEN /\ proc' = [proc EXCEPT ![p] =
                          [r EXCEPT !.pc = "done", !.ret = errForkDigest]]
            /\ hist' = [hist EXCEPT ![p] = IdleHist]
       ELSE IF msg \notin DOMAIN GossipTypeMapping
       THEN /\ proc' = [proc EXCEPT ![p] =
                          [r EXCEPT !.pc = "done", !.ret = ErrMessageNotMapped]]
            /\ hist' = [hist EXCEPT ![p] = IdleHist]
       ELSE BroadcastObject(p, r, IdleHist, GossipTypeMapping[msg], encodeFails)
    /\ UNCHANGED <<fvars, mvars, requestDone, joinedTopics, joinedTopicsLock, nextHandle, closedHandles,
                   subscribed, topicPeers, genesisKnown, subnetReaders,
                   subnetWriter, subnetPeers, joinLog>>

(***************************************************************************)
(* BroadcastAttestation, lines 52-67: the goroutine is spawned and nil     *)
(* returned, unless the fork digest is unavailable.                        *)
(***************************************************************************)
CallBroadcastAttestation(p, subnet) ==
    LET r == [IdleProc EXCEPT !.op = "BroadcastAttestation",
                              !.subnet = subnet] IN
    /\ CanCall(p)
    /\ StartCall(p, IF ~genesisKnown
                    THEN [r EXCEPT !.pc = "done", !.ret = errForkDigest]
                    ELSE [r EXCEPT !.pc = "task_start", !.ret = NoErr])
    /\ UNCHANGED <<fvars, mvars, requestDone, joinedTopics, joinedTopicsLock, nextHandle, closedHandles,
                   subscribed, topicPeers, genesisKnown, subnetReaders,
                   subnetWriter, subnetPeers, joinLog>>

(***************************************************************************)
(* broadcastAttestation, lines 69-140.                                     *)
(***************************************************************************)
\* lines 70-80: the goroutine starts, sets its deadline and takes the
\* subnet's read lock.
TaskRLock(p) ==
    LET s == proc[p].subnet IN
    /\ proc[p].pc = "task_start"
    /\ subnetWriter[s] = NoProc
    /\ subnetReaders' = [subnetReaders EXCEPT ![s] = @ \cup {p}]
    /\ proc' = [proc EXCEPT ![p].pc = "task_rlocked"]
    /\ UNCHANGED <<fvars, mvars, requestDone, joinedTopics, joinedTopicsLock, nextHandle, closedHandles,
                   subscribed, topicPeers, genesisKnown, subnetWriter,
                   subnetPeers, hist, joinLog, callsLeft>>

\* line 82: s.subnetLocker(subnet).RUnlock()
RUnlockMutant(readers, p) == readers
RUnlock(readers, p) == readers \ {p}

\* lines 81-98: hasPeerWithSubnet under the read lock, then RUnlock.
TaskCheckPeer(p) ==
    LET s == proc[p].subnet IN
    /\ proc[p].pc = "task_rlocked"
    /\ subnetReaders' = [subnetReaders EXCEPT ![s] = RUnlock(@, p)]
    /\ proc' = [proc EXCEPT ![p].hasPeer = subnetPeers[s],
                            ![p].pc = IF subnetPeers[s] THEN "task_bobj"
                                      ELSE "task_wantlock"]
    /\ UNCHANGED <<fvars, mvars, requestDone, joinedTopics, joinedTopicsLock, nextHandle, closedHandles,
                   subscribed, topicPeers, genesisKnown, subnetWriter,
                   subnetPeers, hist, joinLog, callsLeft>>

\* line 102: s.subnetLocker(subnet).Lock()
CanLockSubnetMutant(s) == TRUE
CanLockSubnet(s) == subnetWriter[s] = NoProc /\ subnetReaders[s] = {}

TaskLock(p) ==
    LET s == proc[p].subnet IN
    /\ proc[p].pc = "task_wantlock"
    /\ CanLockSubnet(s)
    /\ subnetWriter' = [subnetWriter EXCEPT ![s] = p]
    /\ proc' = [proc EXCEPT ![p].pc = "task_disc", ![p].i = 0]
    /\ UNCHANGED <<fvars, mvars, requestDone, joinedTopics, joinedTopicsLock, nextHandle, closedHandles,
                   subscribed, topicPeers, genesisKnown, subnetReaders,
                   subnetPeers, hist, joinLog, callsLeft>>

\* line 104: the loop condition
DiscoveryAttemptsLeftMutant(i) == i <= maxSubnetDiscoveryAttempts
DiscoveryAttemptsLeft(i) == i < maxSubnetDiscoveryAttempts

\* lines 128-134: what follows the discovery, whatever it returned
AfterDiscoveryMutant(err) == IF err = NoErr THEN "task_bobj" ELSE "done"
AfterDiscovery(err) == "task_bobj"

\* lines 101-131: the discovery function returns err; the deferred Unlock
\* runs and the error, if any, is logged.
DiscoveryReturn(p, err, finds) ==
    /\ subnetWriter' = [subnetWriter EXCEPT ![proc[p].subnet] = NoProc]
    /\ proc' = [proc EXCEPT ![p].pc = AfterDiscovery(err)]
    /\ hist' = [hist EXCEPT ![p].discErr = err, ![p].finds = finds]

\* lines 104-126: one iteration of the discovery loop.
TaskDiscover(p) ==
    LET s == proc[p].subnet IN
    /\ proc[p].pc = "task_disc"
    /\ IF CtxErr(p)
       THEN /\ DiscoveryReturn(p, errCtx, hist[p].finds)
            /\ UNCHANGED subnetPeers
       ELSE \/ /\ DiscoveryReturn(p, errFind, Append(hist[p].finds, "err"))
               /\ UNCHANGED subnetPeers
            \/ /\ DiscoveryReturn(p, NoErr, Append(hist[p].finds, "ok"))
               /\ subnetPeers' = [subnetPeers EXCEPT ![s] = TRUE]
            \/ /\ UNCHANGED subnetPeers
               /\ IF DiscoveryAttemptsLeft(proc[p].i + 1)
                  THEN /\ proc' = [proc EXCEPT ![p].i = @ + 1]
                       /\ hist' = [hist EXCEPT ![p].finds = Append(@, "none")]
                       /\ UNCHANGED subnetWriter
                  ELSE DiscoveryReturn(p, errNotFound,
                                       Append(hist[p].finds, "none"))
    /\ UNCHANGED <<fvars, mvars, requestDone, joinedTopics, joinedTopicsLock, nextHandle, closedHandles,
                   subscribed, topicPeers, genesisKnown, subnetReaders,
                   joinLog, callsLeft>>

\* lines 134-139: broadcastObject on the attestation's subnet topic.  The
\* record of the FindPeersWithSubnet calls is kept until here; the
\* discovery's result (discErr) stays.
TaskBroadcastObject(p) ==
    /\ proc[p].pc = "task_bobj"
    /\ \E encodeFails \in BOOLEAN :
         BroadcastObject(p, proc[p], [hist[p] EXCEPT !.finds = <<>>],
                         attestationToTopic(proc[p].subnet), encodeFails)
    /\ UNCHANGED <<fvars, mvars, requestDone, joinedTopics, joinedTopicsLock, nextHandle, closedHandles,
                   subscribed, topicPeers, genesisKnown, subnetReaders,
                   subnetWriter, subnetPeers, joinLog, callsLeft>>

(***************************************************************************)
(* The environment: contexts, peers, genesis, subscriptions.               *)
(***************************************************************************)
Running(p) == proc[p].pc \notin {"idle", "done"}

\* The context of a running operation is cancelled or its deadline
\* expires.  The operations read their context in the discovery loop and
\* in the poll loop only, so an earlier end of the context is modelled as
\* one on entry to these.
CtxDone(p) ==
    /\ proc[p].op \in PublishOps
    /\ proc[p].pc \in {"task_disc", "poll", "select"}
    /\ ~proc[p].ctxDone
    /\ proc' = [proc EXCEPT ![p].ctxDone = TRUE]
    /\ UNCHANGED <<fvars, mvars, requestDone, joinedTopics, joinedTopicsLock,
                   nextHandle, closedHandles, subscribed, topicPeers,
                   genesisKnown, subnetReaders, subnetWriter, subnetPeers,
                   hist, joinLog, callsLeft>>

\* The request context of the BroadcastAttestation callers is cancelled
\* once a call has returned, before its goroutine runs (and so in the
\* middle of the run of a goroutine spawned earlier).
CancelRequest ==
    /\ \E p \in Procs : proc[p].pc = "task_start"
    /\ ~requestDone
    /\ requestDone' = TRUE
    /\ UNCHANGED <<fvars, mvars, joinedTopics, joinedTopicsLock, nextHandle, closedHandles,
                   subscribed, topicPeers, genesisKnown, subnetReaders,
                   subnetWriter, subnetPeers, proc, hist, joinLog, callsLeft>>

\* Peers join or leave a topic's mesh (followed while a caller polls it).
TopicPeersChange(t) ==
    /\ \E p \in Procs : proc[p].pc \in {"poll", "select"} /\ proc[p].topic = t
    /\ topicPeers' = [topicPeers EXCEPT ![t] = ~@]
    /\ UNCHANGED <<fvars, mvars, requestDone, joinedTopics, joinedTopicsLock, nextHandle, closedHandles,
                   subscribed, genesisKnown, subnetReaders, subnetWriter,
                   subnetPeers, proc, hist, joinLog, callsLeft>>

\* A peer serving the subnet connects or disconnects (followed while a
\* broadcastAttestation goroutine is about to look).
SubnetPeersChange(s) ==
    /\ \E p \in Procs : /\ proc[p].pc \in {"task_start", "task_rlocked"}
                        /\ proc[p].subnet = s
    /\ subnetPeers' = [subnetPeers EXCEPT ![s] = ~@]
    /\ UNCHANGED <<fvars, mvars, requestDone, joinedTopics, joinedTopicsLock, nextHandle, closedHandles,
                   subscribed, topicPeers, genesisKnown, subnetReaders,
                   subnetWriter, proc, hist, joinLog, callsLeft>>

\* Genesis time and genesis validators root become known.
StateInitialized ==
    /\ ~genesisKnown
    /\ genesisKnown' = TRUE
    /\ UNCHANGED <<fvars, mvars, requestDone, joinedTopics, joinedTopicsLock, nextHandle, closedHandles,
                   subscribed, topicPeers, subnetReaders, subnetWriter,
                   subnetPeers, proc, hist, joinLog, callsLeft>>

\* A subscriber cancels its subscription.
CancelSubscription(h) ==
    /\ h \in subscribed
    /\ subscribed' = subscribed \ {h}
    /\ UNCHANGED <<fvars, mvars, requestDone, joinedTopics, joinedTopicsLock, nextHandle, closedHandles,
                   topicPeers, genesisKnown, subnetReaders, subnetWriter,
                   subnetPeers, proc, hist, joinLog, callsLeft>>

\* msgIDFunction has not been called.
MsgIdIdle ==
    /\ pmsgData = <<>>
    /\ msgIds = <<>>

FinderIdle ==
    /\ fpc = "idle"
    /\ slotsPerEpoch = SmallSlotsPerEpoch
    /\ nonSkippedSlotsFullSearchEpochs = SmallFullSearchEpochs
    /\ refSlot = 0
    /\ slot = 0
    /\ headEpoch = 0
    /\ targetEpoch = 0
    /\ peers = <<>>
    /\ pidInd = 0
    /\ ind = 0
    /\ upperBoundSlot = 0
    /\ fResult = [val |-> 0, err |-> NoErr]
    /\ requests = <<>>
    /\ filterCalls = 0
    /\ registryQuery = [fn |-> "none", minPeers |-> 0, minEpoch |-> 0]

(***************************************************************************)
(* TopicSpec: callers of the topic registry.                               *)
(***************************************************************************)
QuietFinder ==
    /\ FinderIdle
    /\ MsgIdIdle
    /\ byzantine = FALSE
    /\ peerChain = {}

TopicInit ==
    /\ QuietFinder
    /\ ServiceInit
    /\ callsLeft = MaxCalls

TopicNext ==
    \/ \E p \in Procs, t \in Topics :
          \/ CallJoinTopic(p, t)
          \/ CallLeaveTopic(p, t)
          \/ CallPublishToTopic(p, t)
          \/ CallSubscribeToTopic(p, t)
    \/ \E p \in Procs :
          \/ JoinLock(p)
          \/ JoinLookup(p)
          \/ JoinFinish(p)
          \/ LeaveLock(p)
          \/ LeaveLookup(p)
          \/ LeaveFinish(p)
          \/ Poll(p)
          \/ Select(p)
          \/ AwaitStateInitialized(p)
          \/ Subscribe(p)
          \/ CtxDone(p)
    \/ \E t \in Topics : TopicPeersChange(t)
    \/ \E h \in subscribed : CancelSubscription(h)
    \/ StateInitialized

TopicSpec == TopicInit /\ [][TopicNext]_vars

(***************************************************************************)
(* PublishSpec: callers of PublishToTopic, each scheduled again and again   *)
(* while it is in the poll loop (the 100 ms sleep ends, the goroutine      *)
(* runs).                                                                  *)
(***************************************************************************)
PublishNext ==
    \/ \E p \in Procs, t \in Topics : CallPublishToTopic(p, t)
    \/ \E p \in Procs :
          \/ JoinLock(p)
          \/ JoinLookup(p)
          \/ JoinFinish(p)
          \/ Poll(p)
          \/ Select(p)
          \/ CtxDone(p)
    \/ \E t \in Topics : TopicPeersChange(t)

PublishSpec ==
    /\ TopicInit
    /\ [][PublishNext]_vars
    /\ \A p \in Procs : WF_vars(Poll(p)) /\ WF_vars(Select(p))

(***************************************************************************)
(* BroadcastSpec: callers of Broadcast.                                    *)
(***************************************************************************)
BroadcastInit ==
    /\ QuietFinder
    /\ ServiceInit
    /\ callsLeft = MaxCalls

BroadcastNext ==
    \/ \E p \in Procs, msg \in MsgTypes, encodeFails \in BOOLEAN :
          CallBroadcast(p, msg, encodeFails)
    \/ \E p \in Procs :
          \/ JoinLock(p)
          \/ JoinLookup(p)
          \/ JoinFinish(p)
          \/ Poll(p)
          \/ Select(p)
          \/ CtxDone(p)
    \/ \E t \in Topics : TopicPeersChange(t)
    \/ StateInitialized

BroadcastSpec == BroadcastInit /\ [][BroadcastNext]_vars

(***************************************************************************)
(* Spec: callers of BroadcastAttestation and the goroutines they spawn.    *)
(***************************************************************************)
Init ==
    /\ QuietFinder
    /\ ServiceInit
    /\ callsLeft = MaxBroadcasts

Next ==
    \/ \E p \in Procs, s \in Subnets : CallBroadcastAttestation(p, s)
    \/ \E p \in Procs :
          \/ TaskRLock(p)
          \/ TaskCheckPeer(p)
          \/ TaskLock(p)
          \/ TaskDiscover(p)
          \/ TaskBroadcastObject(p)
          \/ JoinLock(p)
          \/ JoinLookup(p)
          \/ JoinFinish(p)
          \/ Poll(p)
          \/ Select(p)
          \/ CtxDone(p)
    \/ \E t \in Topics : TopicPeersChange(t)
    \/ \E s \in Subnets : SubnetPeersChange(s)
    \/ StateInitialized
    \/ CancelRequest

Spec == Init /\ [][Next]_vars

(***************************************************************************)
(* TaskSpec: Spec with every goroutine scheduled again and again, every    *)
(* call of the transport returning, and the deadline of line 76 expiring   *)
(* while the goroutine still reads its context.                            *)
(***************************************************************************)
TaskFairness ==
    \A p \in Procs :
        /\ WF_vars(TaskRLock(p))
        /\ WF_vars(TaskCheckPeer(p))
        /\ WF_vars(TaskLock(p))
        /\ WF_vars(TaskDiscover(p))
        /\ WF_vars(TaskBroadcastObject(p))
        /\ WF_vars(JoinLock(p))
        /\ WF_vars(JoinLookup(p))
        /\ WF_vars(JoinFinish(p))
        /\ WF_vars(Poll(p))
        /\ WF_vars(Select(p))
        /\ WF_vars(CtxDone(p))

TaskSpec == Init /\ [][Next]_vars /\ TaskFairness

(***************************************************************************)
(* FinderSpec: one call of nonSkippedSlotAfter.                            *)
(***************************************************************************)
FinderInit ==
    /\ FinderIdle
    /\ MsgIdIdle
    /\ \/ byzantine = TRUE /\ peerChain = {}
       \/ /\ byzantine = FALSE
          /\ peerChain \in {{StartSlot(MaxEpoch)}, {StartSlot(MaxEpoch + 1)},
                            {MaxRefSlot + 1, StartSlot(MaxEpoch + 1) + 1}}
    /\ ServiceInit
    /\ genesisKnown = FALSE
    /\ callsLeft = 0

PeerLists == {[i \in 1..n |-> i] : n \in 0..MaxPeers}

FinderCall ==
    \E s \in 0..MaxRefSlot, mode \in Modes, finalizedEpoch \in 0..1,
       headSlot \in {0, slotsPerEpoch}, target \in 0..MaxEpoch,
       filterErr \in BOOLEAN, filtered \in PeerLists :
        Call(s, mode, finalizedEpoch, headSlot, target, filterErr, filtered)

FinderNext ==
    \/ FinderCall
    \/ DenseFetch
    \/ SparseFetch
    \/ ExactFetch

FinderSpec == FinderInit /\ [][FinderNext]_vars

(***************************************************************************)
(* msgIDFunction, part_000 lines 83-104.                                   *)
(*                                                                         *)
(* snappy.Decode is modelled on a miniature of the snappy block format     *)
(* that keeps what the id depends on: decoding is partial, and several     *)
(* encodings decode to the same bytes.  The first byte is the length of    *)
(* the decoded data; then come elements: 0 b (the literal b), 2 b c (the   *)
(* literal b c) and 1 (a copy of the last byte written).  Decoding fails   *)
(* on an empty input, an unknown tag, a truncated literal, a copy with     *)
(* nothing written, and a length that differs from the header's.           *)
(***************************************************************************)
Bytes == {0, 1, 2}
DataSet == UNION {[1..n -> Bytes] : n \in 0..MaxDataLen}

RECURSIVE DecodeElements(_, _)
DecodeElements(body, out) ==
    IF body = <<>> THEN [ok |-> TRUE, out |-> out]
    ELSE IF body[1] = 0 /\ Len(body) >= 2
    THEN DecodeElements(SubSeq(body, 3, Len(body)), Append(out, body[2]))
    ELSE IF body[1] = 2 /\ Len(body) >= 3
    THEN DecodeElements(SubSeq(body, 4, Len(body)), out \o <<body[2], body[3]>>)
    ELSE IF body[1] = 1 /\ out # <<>>
    THEN DecodeElements(Tail(body), Append(out, out[Len(out)]))
    ELSE [ok |-> FALSE, out |-> <<>>]

\* line 95: decodedData, err := snappy.Decode(nil, pmsg.Data)
SnappyDecode(data) ==
    IF data = <<>> THEN [ok |-> FALSE, out |-> <<>>]
    ELSE LET r == DecodeElements(Tail(data), <<>>) IN
         IF r.ok /\ Len(r.out) = data[1] THEN r
         ELSE [ok |-> FALSE, out |-> <<>>]

\* params.BeaconNetworkConfig(): the two four-byte message domains
MessageDomainValidSnappy == <<1, 0, 0, 0>>
MessageDomainInvalidSnappyMutant == <<1, 0, 0, 0>>
MessageDomainInvalidSnappy == <<0, 0, 0, 0>>

\* hashutil.Hash, taken as collision-free: the digest stands for its input.
Hash(data) == [sha256 |-> data]

\* h[:20], taken as collision-free as well.
First20(h) == [first20 |-> h]

\* lines 94-104
msgIDFunction(data) ==
    LET decoded == SnappyDecode(data) IN
    IF ~decoded.ok
    THEN First20(Hash(MessageDomainInvalidSnappy \o data))
    ELSE First20(Hash(MessageDomainValidSnappy \o decoded.out))

\* pubsub calls msgIDFunction on two messages.
ComputeMsgIds ==
    /\ msgIds = <<>>
    /\ msgIds' = <<msgIDFunction(pmsgData[1]), msgIDFunction(pmsgData[2])>>
    /\ UNCHANGED <<fvars, pvars, pmsgData>>

\* the same messages are seen again
RecomputeMsgIds ==
    /\ msgIds # <<>>
    /\ msgIds' = <<msgIDFunction(pmsgData[2]), msgIDFunction(pmsgData[1])>>
    /\ pmsgData' = <<pmsgData[2], pmsgData[1]>>
    /\ UNCHANGED <<fvars, pvars>>

MsgIdInit ==
    /\ FinderIdle
    /\ byzantine = FALSE
    /\ peerChain = {}
    /\ ServiceInit
    /\ genesisKnown = FALSE
    /\ callsLeft = 0
    /\ pmsgData \in DataSet \X DataSet
    /\ msgIds = <<>>

MsgIdNext ==
    \/ ComputeMsgIds
    \/ RecomputeMsgIds

MsgIdSpec == MsgIdInit /\ [][MsgIdNext]_vars

(***************************************************************************)
(* ScenarioSpec: calls of nonSkippedSlotAfter with the mainnet             *)
(* configuration (32 slots per epoch, 10 fully searched epochs), ten       *)
(* honest peers and a chain with blocks at slots 200 and 310 only.         *)
(***************************************************************************)
ScenarioPeers == [i \in 1..10 |-> i]

ScenarioInit ==
    /\ MsgIdIdle
    /\ fpc = "idle"
    /\ slotsPerEpoch = 32
    /\ nonSkippedSlotsFullSearchEpochs = 10
    /\ refSlot = 0 /\ slot = 0 /\ headEpoch = 0 /\ targetEpoch = 0
    /\ peers = <<>> /\ pidInd = 0 /\ ind = 0 /\ upperBoundSlot = 0
    /\ fResult = [val |-> 0, err |-> NoErr]
    /\ requests = <<>>
    /\ filterCalls = 0
    /\ registryQuery = [fn |-> "none", minPeers |-> 0, minEpoch |-> 0]
    /\ byzantine = FALSE
    /\ peerChain = {200, 310}
    /\ ServiceInit
    /\ genesisKnown = FALSE
    /\ callsLeft = 0

ScenarioCall ==
    \E s \in {100, 199, 200, 310}, mode \in Modes,
       headSlot \in {0, 3 * slotsPerEpoch},
       target \in {10, 30}, filterErr \in BOOLEAN :
        Call(s, mode, 3, headSlot, target, filterErr, ScenarioPeers)

ScenarioNext ==
    \/ ScenarioCall
    \/ DenseFetch
    \/ SparseFetch
    \/ ExactFetch

ScenarioSpec == ScenarioInit /\ [][ScenarioNext]_vars

(***************************************************************************)
(* Claims about nonSkippedSlotAfter.                                       *)
(***************************************************************************)
FinderReturned == fpc = "done"
FinderSucceeded == fpc = "done" /\ fResult.err = NoErr

\* C1: every successful call returns a slot above the reference slot the
\* caller passed in and not beyond the last slot of the target epoch.
C1_NextWithinTargetEpoch ==
    FinderSucceeded =>
        /\ fResult.val > refSlot
        /\ fResult.val <= EndOfEpoch(targetEpoch)

\* C2: a call made when targetEpoch <= headEpoch fails with errSlotIsTooHigh,
\* having called neither the peer filter nor any peer.
C2_SlotTooHighNoQueries ==
    (fpc # "idle" /\ targetEpoch <= headEpoch) =>
        /\ fpc = "done"
        /\ fResult = [val |-> 0, err |-> errSlotIsTooHigh]
        /\ requests = <<>>
        /\ filterCalls = 0

\* C2's case: a call returned with the target epoch equal to a non-zero head epoch.
C2_Witness ==
    /\ FinderReturned
    /\ targetEpoch = headEpoch
    /\ headEpoch > 0
    /\ fResult.err = errSlotIsTooHigh

(***************************************************************************)
(* Claims about the topic registry and the broadcaster.                    *)
(***************************************************************************)
TaskPcs == {"task_start", "task_rlocked", "task_wantlock", "task_disc",
            "task_bobj"}
IsTask(p) == proc[p].op = "BroadcastAttestation" /\ proc[p].ret = NoErr
InPollLoop(p) ==
    proc[p].op = "PublishToTopic" /\ proc[p].pc \in {"poll", "select"}

\* C3: while no LeaveTopic closes the topic, pubsub.Join has succeeded at
\* most once for it and all the JoinTopic calls that returned without error
\* returned one and the same handle.
C3_JoinTopicIdempotent ==
    \A t \in Topics :
        /\ joinLog[t].joins <= 1
        /\ Cardinality(joinLog[t].returned) <= 1

\* C3's case: two callers joined the same topic and hold the same handle.
C3_Witness ==
    \E t \in Topics :
        /\ \A p \in Procs : /\ proc[p].op = "JoinTopic"
                            /\ proc[p].pc = "done"
                            /\ proc[p].ret = NoErr
                            /\ proc[p].topic = t
                            /\ proc[p].handle = joinedTopics[t]
        /\ joinedTopics[t] # NoHandle
        /\ joinLog[t].joins = 1

\* C4: a Broadcast of a message whose type GossipTypeMapping does not hold
\* returns ErrMessageNotMapped, having encoded and published nothing,
\* whether the fork digest is available or not.
C4_UnmappedFailsNotMapped ==
    \A p \in Procs :
        (/\ proc[p].op = "Broadcast"
         /\ proc[p].msg \notin DOMAIN GossipTypeMapping
         /\ proc[p].pc = "done") =>
            /\ proc[p].ret = ErrMessageNotMapped
            /\ hist[p].encodeCalls = 0
            /\ hist[p].publishCalls = 0

\* The record of a goroutine's FindPeersWithSubnet calls, as the discovery
\* leaves it.
C5_DiscoveryInv ==
    \A p \in Procs :
        LET f == hist[p].finds
            n == Len(hist[p].finds) IN
        proc[p].op = "BroadcastAttestation" =>
            /\ n <= maxSubnetDiscoveryAttempts
            /\ proc[p].hasPeer => (n = 0 /\ hist[p].discErr = "none")
            /\ \A k \in 1..(n - 1) : f[k] = "none"
            /\ proc[p].pc = "task_disc" => (hist[p].discErr = "none" /\
                                            \A k \in 1..n : f[k] = "none")
            /\ (proc[p].pc = "task_bobj" /\ ~proc[p].hasPeer) =>
                  /\ hist[p].discErr = NoErr => (n >= 1 /\ f[n] = "ok")
                  /\ hist[p].discErr = errFind => (n >= 1 /\ f[n] = "err")
                  /\ hist[p].discErr = errNotFound =>
                        (n = maxSubnetDiscoveryAttempts /\ f[n] = "none")
                  /\ hist[p].discErr = errCtx =>
                        (n < maxSubnetDiscoveryAttempts /\
                         \A k \in 1..n : f[k] = "none")
                  /\ hist[p].discErr # "none"

\* A step that adds a FindPeersWithSubnet call adds one, in the discovery
\* loop, before the deadline.
C5_DiscoveryStep ==
    \A p \in Procs :
        Len(hist'[p].finds) > Len(hist[p].finds) =>
            /\ proc[p].pc = "task_disc"
            /\ ~proc[p].ctxDone
            /\ Len(hist'[p].finds) = Len(hist[p].finds) + 1

\* C5: a broadcastAttestation goroutine calls FindPeersWithSubnet at most
\* maxSubnetDiscoveryAttempts times, never when the peer check found a peer,
\* never after a call that found a peer or failed, and never once its
\* deadline has passed.
C5_BoundedDiscovery == []C5_DiscoveryInv /\ [][C5_DiscoveryStep]_vars

\* C5's case: the second FindPeersWithSubnet call found a peer.
C5_Witness ==
    \E p \in Procs :
        /\ proc[p].pc = "task_bobj"
        /\ hist[p].finds = <<"none", "ok">>
        /\ hist[p].discErr = NoErr

\* C6: a broadcastAttestation goroutine enters broadcastObject once, and
\* only after its peer check and its discovery, if any, have returned and
\* the subnet's lock is released; a goroutine that has finished has entered
\* it, whatever the peer check or the discovery returned.
C6_BroadcastObjectOnce ==
    \A p \in Procs :
        IsTask(p) =>
            /\ hist[p].objCalls <= 1
            /\ hist[p].encodeCalls = hist[p].objCalls
            /\ proc[p].pc = "done" => hist[p].objCalls = 1
            /\ proc[p].pc \in TaskPcs <=> hist[p].objCalls = 0
            /\ hist[p].objCalls = 1 =>
                  /\ proc[p].hasPeer \/ hist[p].discErr # "none"
                  /\ subnetWriter[proc[p].subnet] # p
                  /\ p \notin subnetReaders[proc[p].subnet]

\* C6's case: no peer was found in three attempts and broadcastObject ran.
C6_Witness ==
    \E p \in Procs :
        /\ IsTask(p)
        /\ hist[p].discErr = errNotFound
        /\ hist[p].objCalls = 1
        /\ hist[p].publishCalls = 1

\* C7: of the goroutines on one subnet at most one is in the discovery
\* loop, and none is in the peer check while one is in the discovery loop.
C7_DiscoveryExclusive ==
    \A s \in Subnets :
        LET on(pc) == {p \in Procs : proc[p].subnet = s /\ proc[p].pc = pc} IN
        /\ Cardinality(on("task_disc")) <= 1
        /\ on("task_disc") # {} => on("task_rlocked") = {}

\* C7's case: a goroutine is in the discovery loop of a subnet while another
\* is in the poll loop of a publish for the same subnet.
C7_Witness ==
    \E p, q \in Procs :
        /\ proc[p].subnet = proc[q].subnet
        /\ proc[p].pc = "task_disc"
        /\ Len(hist[p].finds) > 0
        /\ proc[q].op = "BroadcastAttestation"
        /\ proc[q].pc \in {"poll", "select"}

\* C8: PublishToTopic calls Publish at most once, and only in the loop
\* iteration whose ListPeers returned a peer.
C8_PublishOnlyWithPeers ==
    \A p \in Procs :
        /\ hist[p].publishCalls <= 1
        /\ hist[p].publishCalls = 1 =>
              (hist[p].lastList = "some" /\ proc[p].pc = "done")
        /\ hist[p].lastList = "zero" =>
              (hist[p].publishCalls = 0 /\ proc[p].pc \in {"select", "done"})

\* C8's case: a PublishToTopic call published to a topic with a peer.
C8_Witness ==
    \E p \in Procs :
        /\ proc[p].op = "PublishToTopic"
        /\ proc[p].pc = "done"
        /\ proc[p].ret = NoErr
        /\ hist[p].publishCalls = 1
        /\ topicPeers[proc[p].topic]

\* C9: a PublishToTopic call in its poll loop returns once its context is
\* done; while the topic has no peer it then returns the context's error
\* without publishing; and a call whose topic has a peer that stays
\* returns, having published unless its context was done first.
C9_PollLoopEnds ==
    \A p \in Procs :
        /\ (InPollLoop(p) /\ proc[p].ctxDone) ~> (proc[p].pc = "done")
        /\ (InPollLoop(p) /\ proc[p].ctxDone /\ ~topicPeers[proc[p].topic])
              ~> \/ /\ proc[p].pc = "done"
                    /\ proc[p].ret = errCtx
                    /\ hist[p].publishCalls = 0
                 \/ topicPeers[proc[p].topic]
        /\ (InPollLoop(p) /\ topicPeers[proc[p].topic])
              ~> \/ /\ proc[p].pc = "done"
                    /\ \/ hist[p].publishCalls = 1
                       \/ proc[p].ret = errCtx /\ proc[p].ctxDone
                 \/ ~topicPeers[proc[p].topic]

\* C9's case: one call returned its context's error from the poll loop,
\* another published after a peer had appeared.
C9_Witness ==
    \E p, q \in Procs :
        /\ proc[p].op = "PublishToTopic" /\ proc[q].op = "PublishToTopic"
        /\ proc[p].pc = "done" /\ proc[q].pc = "done"
        /\ proc[p].ret = errCtx /\ hist[p].publishCalls = 0
        /\ hist[p].lastList = "zero"
        /\ proc[q].ret = NoErr /\ hist[q].publishCalls = 1

\* C10: BroadcastAttestation has returned nil before its goroutine has done
\* anything, and the goroutine gives up on a context error only when its own
\* one-epoch deadline has passed, never because the caller's context is done.
C10_TaskDetached ==
    \A p \in Procs :
        proc[p].op = "BroadcastAttestation" =>
            /\ proc[p].pc = "task_start" =>
                  (proc[p].ret = NoErr /\ hist[p] = IdleHist)
            /\ (hist[p].discErr = errCtx \/ hist[p].pubErr = errCtx) =>
                  proc[p].ctxDone

\* C10's case: the callers' context is done and a goroutine has nonetheless
\* discovered a peer and published.
C10_Witness ==
    \E p \in Procs :
        /\ requestDone
        /\ IsTask(p)
        /\ proc[p].pc = "done"
        /\ ~proc[p].ctxDone
        /\ hist[p].discErr = NoErr
        /\ hist[p].pubErr = NoErr
        /\ hist[p].publishCalls = 1

\* The value BroadcastAttestation returned is nil when a goroutine was
\* spawned, and the fork digest error when none was.
C11_ReturnInv ==
    \A p \in Procs :
        proc[p].op = "BroadcastAttestation" =>
            /\ proc[p].ret \in {NoErr, errForkDigest}
            /\ proc[p].ret = errForkDigest =>
                  (proc[p].pc = "done" /\ hist[p] = IdleHist)

\* No step of a goroutine changes the value its call returned.
C11_ReturnStep ==
    \A p \in Procs :
        (proc[p].op = "BroadcastAttestation" /\ Running(p)) =>
            proc'[p].ret = proc[p].ret

\* C11: the value BroadcastAttestation returns does not depend on what the
\* peer check, the discovery and the publish of its goroutine come to: it
\* is nil whenever a goroutine was spawned, and no step of the goroutine
\* changes it.
C11_ErrorsNotSurfaced == []C11_ReturnInv /\ [][C11_ReturnStep]_vars

\* C11's case: the discovery found no peer, the publish failed, and the
\* call had returned nil.
C11_Witness ==
    \E p \in Procs :
        /\ proc[p].op = "BroadcastAttestation"
        /\ proc[p].pc = "done"
        /\ hist[p].discErr = errNotFound
        /\ hist[p].pubErr = errTransport
        /\ hist[p].objErr = errPublish
        /\ proc[p].ret = NoErr

\* While genesis is unknown every SubscribeToTopic call waits at
\* awaitStateInitialized and no handle has a subscription.
C12_GateInv ==
    ~genesisKnown =>
        /\ \A p \in Procs :
              proc[p].op = "SubscribeToTopic" => proc[p].pc = "await"
        /\ subscribed = {}

\* C12: a SubscribeToTopic call joins and subscribes only once genesis time
\* and genesis validators root are known, a call made before waits, and the
\* gate, once open, stays open.
C12_SubscribeAfterGate == []C12_GateInv /\ [][genesisKnown => genesisKnown']_vars

\* C12's case: a SubscribeToTopic call has joined its topic and subscribed.
C12_Witness ==
    \E p \in Procs :
        /\ proc[p].op = "SubscribeToTopic"
        /\ proc[p].pc = "done"
        /\ proc[p].ret = NoErr
        /\ proc[p].handle = joinedTopics[proc[p].topic]
        /\ proc[p].handle \in subscribed
        /\ genesisKnown

(***************************************************************************)
(* Further claims about nonSkippedSlotAfter.                               *)
(***************************************************************************)
\* C13: calculateHeadAndTargetEpochs asks the peer registry for the best
\* non-finalized epoch with a minimum of 2 x MinimumSyncPeers peers above
\* the epoch of the local head slot, and for the best finalized epoch with
\* MaxPeersToSync peers above the local finalized epoch.
C13_RegistryQuery ==
    fpc # "idle" =>
        /\ registryQuery.minEpoch = headEpoch
        /\ registryQuery.fn = "BestNonFinalized" =>
              registryQuery.minPeers = 2 * MinimumSyncPeers
        /\ registryQuery.fn = "BestFinalized" =>
              registryQuery.minPeers = MaxPeersToSync

\* The scenario: reference slot 100, target epoch 10 above the head epoch,
\* ten sampled peers, no request failed.
InScenario ==
    /\ fpc # "idle"
    /\ slotsPerEpoch = 32
    /\ peerChain = {200, 310}
    /\ refSlot = 100
    /\ targetEpoch = 10
    /\ headEpoch < targetEpoch
    /\ Len(peers) = 10
    /\ fResult.err # errRequestBlocks

\* C14: in the scenario the call stays in the dense stage, its k-th request
\* is (StartSlot 101 + 32 (k - 1), Count 32, Step 1), and it returns 200 on
\* the request whose window holds slot 200, the fourth.
C14_ScenarioReturns200 ==
    InScenario =>
        /\ fpc \in {"dense", "done"}
        /\ Len(requests) <= 4
        /\ \A k \in 1..Len(requests) :
              /\ requests[k].start = 101 + 32 * (k - 1)
              /\ requests[k].count = 32
              /\ requests[k].step = 1
              /\ requests[k].pid = ScenarioPeers[k]
        /\ fpc = "done" =>
              /\ fResult = [val |-> 200, err |-> NoErr]
              /\ Len(requests) = 4
              /\ requests[4].start <= 200
              /\ 200 < requests[4].start + requests[4].count

\* C14's case: the scenario's call has returned.
C14_Witness ==
    /\ InScenario
    /\ fpc = "done"
    /\ fResult.val = 200
    /\ Len(requests) = 4

(***************************************************************************)
(* Claims about msgIDFunction.                                             *)
(***************************************************************************)
\* C15: the id is a function of the Data alone; two Data that decode to
\* the same bytes get the same id, hash(valid domain, decoded)[:20]; a
\* Data that does not decode gets hash(invalid domain, Data)[:20]; and a
\* Data that decodes and one that does not, whose bytes are the decoded
\* bytes of the first, get different ids.
C15_MsgIdByContent ==
    msgIds # <<>> =>
        LET a == pmsgData[1]
            b == pmsgData[2]
            da == SnappyDecode(a)
            db == SnappyDecode(b) IN
        /\ a = b => msgIds[1] = msgIds[2]
        /\ (da.ok /\ db.ok /\ da.out = db.out) =>
              /\ msgIds[1] = msgIds[2]
              /\ msgIds[1] = First20(Hash(MessageDomainValidSnappy \o da.out))
        /\ ~da.ok =>
              msgIds[1] = First20(Hash(MessageDomainInvalidSnappy \o a))
        /\ (da.ok /\ ~db.ok /\ b = da.out) => msgIds[1] # msgIds[2]

\* C15's case: two Data that differ and decode to the same bytes.
C15_Witness ==
    /\ msgIds # <<>>
    /\ pmsgData[1] # pmsgData[2]
    /\ SnappyDecode(pmsgData[1]).ok
    /\ SnappyDecode(pmsgData[2]).ok
    /\ SnappyDecode(pmsgData[1]).out = SnappyDecode(pmsgData[2]).out
    /\ msgIds[1] = msgIds[2]

(***************************************************************************)
(* Further claims about the topic registry.                                *)
(***************************************************************************)
\* Every handle in the joined-topics map is open.
C16_MapHandlesOpen ==
    \A t \in Topics :
        joinedTopics[t] # NoHandle => joinedTopics[t] \notin closedHandles

\* What a step may do to the closed handles and what LeaveTopic returns.
C16_LeaveStep ==
    /\ closedHandles' # closedHandles =>
          \E p \in Procs :
              /\ proc[p].op = "LeaveTopic" /\ proc[p].pc = "leave_io"
              /\ proc[p].handle = joinedTopics[proc[p].topic]
              /\ proc[p].handle \notin closedHandles
              /\ proc[p].handle \notin subscribed
              /\ closedHandles' = closedHandles \cup {proc[p].handle}
              /\ joinedTopics' = [joinedTopics EXCEPT ![proc[p].topic] = NoHandle]
              /\ proc'[p].pc = "done" /\ proc'[p].ret = NoErr
    /\ \A p \in Procs :
          /\ (proc[p].pc = "leave_io" /\ proc'[p] # proc[p]
                /\ proc[p].handle \in subscribed) =>
                /\ proc'[p].pc = "done" /\ proc'[p].ret = errClose
                /\ joinedTopics' = joinedTopics
                /\ joinedTopics[proc[p].topic] = proc[p].handle
                /\ closedHandles' = closedHandles
          /\ (proc[p].pc = "leave_locked" /\ proc'[p] # proc[p]
                /\ joinedTopics[proc[p].topic] = NoHandle) =>
                /\ proc'[p].pc = "done" /\ proc'[p].ret = NoErr
                /\ joinedTopics' = joinedTopics
                /\ closedHandles' = closedHandles

\* C16: every handle in the joined-topics map is open; a handle is closed
\* once, by a LeaveTopic whose Close found no outstanding subscription, and
\* is then removed from the map; a LeaveTopic whose Close fails returns the
\* error and leaves the topic joined; a LeaveTopic of a topic that is not
\* joined returns nil and changes nothing.
C16_HandleClosedOnce == []C16_MapHandlesOpen /\ [][C16_LeaveStep]_vars

\* C16's case: a LeaveTopic closed a topic's handle and the topic has been
\* joined again, with another handle.
C16_Witness ==
    \E p \in Procs :
        /\ proc[p].op = "LeaveTopic"
        /\ proc[p].pc = "done"
        /\ proc[p].ret = NoErr
        /\ proc[p].handle \in closedHandles
        /\ joinedTopics[proc[p].topic] # NoHandle
        /\ joinedTopics[proc[p].topic] # proc[p].handle

\* C17: no caller holds joinedTopicsLock while it is in a call of the
\* transport: pubsub.Join, Topic.Close, ListPeers, Publish or Subscribe.
C17_LockNotHeldInTransport ==
    \A p \in Procs :
        proc[p].pc \in {"join_io", "leave_io", "poll", "select", "subscribe"}
            => joinedTopicsLock # p

(***************************************************************************)
(* The exact stage of nonSkippedSlotAfter.                                 *)
(***************************************************************************)
\* The step of the exact stage, from the upper bound it was entered with.
C18_ExactStep ==
    fpc = "exact" =>
        LET U == upperBoundSlot
            req == requests'[Len(requests')] IN
        /\ Len(requests') = Len(requests) + 1
        /\ req.count = 2 * slotsPerEpoch
        /\ req.step = 1
        /\ req.start >= 0
        /\ req.start % slotsPerEpoch = 0
        /\ req.start <= U
        /\ U < req.start + req.count
        /\ U <= slotsPerEpoch => req.start = StartSlot(SlotToEpoch(U))
        /\ fpc' = "done"

\* C18: the exact stage issues one request (Count = 2 x SlotsPerEpoch,
\* Step = 1) whose start slot S is a multiple of SlotsPerEpoch, computed
\* without going below zero, with S <= U < S + 2 x SlotsPerEpoch for the
\* upper bound U the stage was entered with.
C18_ExactWindowHoldsBound == [][C18_ExactStep]_vars

\* C18's case: the exact stage ran after a sparse request whose slot was
\* accepted as the upper bound, and the call returned a slot.
C18_Witness ==
    /\ fpc = "done"
    /\ fResult.err = NoErr
    /\ Len(requests) >= 2
    /\ requests[Len(requests)].count = 2 * slotsPerEpoch
    /\ requests[Len(requests) - 1].step = slotsPerEpoch
    /\ fResult.val < StartSlot(targetEpoch)

\* C19: no PublishToTopic or SubscribeToTopic call has called ListPeers,
\* Publish or Subscribe on a handle that LeaveTopic had closed.
C19_NoUseOfClosedHandle ==
    \A p \in Procs : ~hist[p].usedClosed


HoldsNoSubnetLock(p) ==
    \A s \in Subnets : p \notin subnetReaders[s] /\ subnetWriter[s] # p

C20_LockInv ==
    \A p \in Procs :
        /\ proc[p].pc = "task_wantlock" => p \notin subnetReaders[proc[p].subnet]
        /\ ~Running(p) => HoldsNoSubnetLock(p)

\* C20: every broadcastAttestation goroutine, its discovery and publish
\* calls returning by the deadline, ends with the subnet's read lock and
\* exclusive lock released, and none requests the exclusive lock while it
\* holds the read lock.
C20_TasksTerminate ==
    /\ []C20_LockInv
    /\ \A p \in Procs :
          (IsTask(p) /\ Running(p)) ~>
              (proc[p].pc = "done" /\ HoldsNoSubnetLock(p))

\* Both goroutines found no peer, went through the exclusive lock one
\* after the other, and have ended.
C20_Witness ==
    /\ \A p \in Procs : /\ IsTask(p)
                        /\ proc[p].pc = "done"
                        /\ ~proc[p].hasPeer
                        /\ hist[p].discErr # NoErr
    /\ \A s \in Subnets : subnetWriter[s] = NoProc /\ subnetReaders[s] = {}

=============================================================================
